---- MODULE Spec2Model ----
(***************************************************************************)
(* Model of filter_scenarios.py: the indentation parser of YAML-like text  *)
(* (parse_block_ids_from_text), the block id validator and the             *)
(* multi-environment block search, driven by the menu loop of main().      *)
(*                                                                         *)
(* A text line is kept as the tokens the two regular expressions of the    *)
(* parser look at:                                                         *)
(*   kind     "blank"   - nothing but whitespace                           *)
(*            "comment" - first non-blank character is '#'                 *)
(*            "entry"   - <indent><key>:<value>                            *)
(*   indent   number of leading whitespace characters, len(group(1))       *)
(*   var_name the key, group(2); keys are [A-Za-z_][A-Za-z0-9_]* and hold  *)
(*            no '.', so a dotted path is kept as the sequence of its      *)
(*            segments                                                     *)
(*   hexlen   number of characters of the value, all of them hex digits;   *)
(*            0 when the key carries no value                              *)
(*   value    the value itself (the block id when hexlen = 24)             *)
(* A trailing "# ..." is accepted by both patterns alike and is left out.  *)
(***************************************************************************)
EXTENDS Integers, Sequences, FiniteSets, TLC

VARIABLES
    pc,            \* which function or loop is running, and how far it is
    lines,         \* parse_block_ids_from_text: the lines consumed so far
    path_stack,    \* parse_block_ids_from_text: path_stack
    block_ids,     \* the (block_id, path, line_number) triples parsed
    scenarios,     \* validate_block_ids: the snapshot validated against
    results,       \* validate_block_ids: its return value
    env_scenarios, \* the dict env_name -> scenarios, in insertion order
    search_input,  \* the block id searched for
    env_results,   \* the return value of the search, by id or by name
    rows,          \* display_search_results_multi_env: the rows printed
    shown,         \* main: what the last command printed
    cookies,       \* main: the environments whose cookie is set
    fetches        \* main: per environment, whether a request was answered
                   \* with a list of scenarios never, once, or again later

vars == <<pc, lines, path_stack, block_ids, scenarios, results,
          env_scenarios, search_input, env_results, rows, shown, cookies, fetches>>

parseVars == <<lines, path_stack, block_ids>>

validateVars == <<scenarios, results>>

searchVars == <<env_scenarios, search_input, env_results>>

mainVars == <<rows, shown, cookies, fetches>>

\* outside main nothing is printed and nothing is requested
NoSession ==
    /\ rows = <<>>
    /\ shown = ""
    /\ cookies = {}
    /\ fetches = <<>>

(***************************************************************************)
(* Bounds of the model.                                                    *)
(***************************************************************************)
MaxLines == 4
MaxIndent == 2
\* blocks (items) in one environment's snapshot
MaxBlocks == 2
\* blocks in the snapshots of all environments of one search together
MaxTotalBlocks == 3
\* references handed to validate_block_ids
MaxRefs == 2

\* [a-f0-9]{24} in block_id_pattern
BlockIdLen == 24

BlockIds == {"id1", "id2"}

BlankLine == [kind |-> "blank", indent |-> 0, var_name |-> 0, hexlen |-> 0, value |-> ""]

CommentLine == [kind |-> "comment", indent |-> 0, var_name |-> 0, hexlen |-> 0, value |-> ""]

\* The lines the text may hold at position n: blank, comment, a key with no
\* value, a key with a value that is too short for a block id ("foo: 123"),
\* a key with a block id. The key of an entry line is
\* named after the line (key n stands for a key no other line uses): the
\* parser never compares keys, and distinct keys make every path name the
\* exact lines it was built from.
LinesAt(n) ==
    {BlankLine, CommentLine}
    \cup {[kind |-> "entry", indent |-> i, var_name |-> n, hexlen |-> 0, value |-> ""] :
            i \in 0..MaxIndent}
    \cup {[kind |-> "entry", indent |-> i, var_name |-> n, hexlen |-> 3, value |-> "123"] :
            i \in 0..MaxIndent}
    \cup {[kind |-> "entry", indent |-> i, var_name |-> n, hexlen |-> BlockIdLen, value |-> b] :
            i \in 0..MaxIndent, b \in BlockIds}

(***************************************************************************)
(* parse_block_ids_from_text                                               *)
(***************************************************************************)

\* if not line.strip(): continue
IsBlank(line) == line.kind = "blank"

\* if stripped.startswith('#'): continue
IsComment(line) == line.kind = "comment"

BlockIdMatchAnyLength(line) == line.kind = "entry" /\ line.hexlen > 0

\* block_id_pattern.match(line): key, ':' and exactly 24 hex digits
BlockIdMatch(line) == line.kind = "entry" /\ line.hexlen = BlockIdLen

KeyValueMatchAnyValue(line) == line.kind = "entry"

\* key_value_pattern.match(line): key, ':' and no value
KeyValueMatch(line) == line.kind = "entry" /\ line.hexlen = 0

RECURSIVE PopStackStrict(_, _)
PopStackStrict(stack, indent) ==
    IF stack # <<>> /\ stack[Len(stack)][2] > indent
    THEN PopStackStrict(SubSeq(stack, 1, Len(stack) - 1), indent)
    ELSE stack

\* while path_stack and path_stack[-1][1] >= indent: path_stack.pop()
RECURSIVE PopStack(_, _)
PopStack(stack, indent) ==
    IF stack # <<>> /\ stack[Len(stack)][2] >= indent
    THEN PopStack(SubSeq(stack, 1, Len(stack) - 1), indent)
    ELSE stack

\* '.'.join([p[0] for p in path_stack] + [var_name]), or var_name alone
BuildPath(stack, var_name) ==
    IF stack # <<>>
    THEN [k \in 1..Len(stack) |-> stack[k][1]] \o <<var_name>>
    ELSE <<var_name>>

\* enumerate(lines, 1)
FirstLineNum == 1

\* One iteration of the loop over the lines: st is [path_stack, block_ids],
\* line_num the number enumerate() gives the line.
ParseLine(st, line, line_num) ==
    IF IsBlank(line) THEN st
    ELSE IF IsComment(line) THEN st
    ELSE IF BlockIdMatch(line) THEN
        LET indent == line.indent
            var_name == line.var_name
            block_id == line.value
            stack == PopStack(st.path_stack, indent)
            path == BuildPath(stack, var_name)
        IN  [path_stack |-> Append(stack, <<var_name, indent>>),
             block_ids |-> Append(st.block_ids, <<block_id, path, line_num>>)]
    ELSE IF KeyValueMatch(line) THEN
        LET indent == line.indent
            var_name == line.var_name
            stack == PopStack(st.path_stack, indent)
        IN  [path_stack |-> Append(stack, <<var_name, indent>>),
             block_ids |-> st.block_ids]
    ELSE st

\* The whole function: the loop over text.split('\n').
RECURSIVE ParseFrom(_, _, _)
ParseFrom(st, text, k) ==
    IF k > Len(text) THEN st
    ELSE ParseFrom(ParseLine(st, text[k], FirstLineNum + k - 1), text, k + 1)

parse_block_ids_from_text(text) ==
    ParseFrom([path_stack |-> <<>>, block_ids |-> <<>>], text, 1).block_ids

(***************************************************************************)
(* The parser, line by line: lines holds the lines consumed so far,        *)
(* path_stack and block_ids are the locals of the function after them.     *)
(* The loop never looks ahead, so the text is drawn as it is read.         *)
(***************************************************************************)
InitParse ==
    /\ pc = "parse"
    /\ lines = <<>>
    /\ path_stack = <<>>
    /\ block_ids = <<>>
    /\ scenarios = <<>>
    /\ results = <<>>
    /\ env_scenarios = <<>>
    /\ search_input = ""
    /\ env_results = <<>>
    /\ NoSession

Consume(line) ==
    LET st == ParseLine([path_stack |-> path_stack, block_ids |-> block_ids],
                        line, FirstLineNum + Len(lines))
    IN  /\ pc = "parse"
        /\ lines' = Append(lines, line)
        /\ path_stack' = st.path_stack
        /\ block_ids' = st.block_ids
        /\ UNCHANGED <<pc, validateVars, searchVars, mainVars>>

SkipBlankLine ==
    /\ Len(lines) < MaxLines
    /\ \E line \in LinesAt(Len(lines) + 1) : IsBlank(line) /\ Consume(line)

SkipCommentLine ==
    /\ Len(lines) < MaxLines
    /\ \E line \in LinesAt(Len(lines) + 1) : IsComment(line) /\ Consume(line)

BlockIdLine ==
    /\ Len(lines) < MaxLines
    /\ \E line \in LinesAt(Len(lines) + 1) :
          /\ ~IsBlank(line) /\ ~IsComment(line)
          /\ BlockIdMatch(line)
          /\ Consume(line)

KeyLine ==
    /\ Len(lines) < MaxLines
    /\ \E line \in LinesAt(Len(lines) + 1) :
          /\ ~IsBlank(line) /\ ~IsComment(line)
          /\ ~BlockIdMatch(line) /\ KeyValueMatch(line)
          /\ Consume(line)

OtherLine ==
    /\ Len(lines) < MaxLines
    /\ \E line \in LinesAt(Len(lines) + 1) :
          /\ ~IsBlank(line) /\ ~IsComment(line)
          /\ ~BlockIdMatch(line) /\ ~KeyValueMatch(line)
          /\ Consume(line)

NextParse ==
    \/ SkipBlankLine
    \/ SkipCommentLine
    \/ BlockIdLine
    \/ KeyLine
    \/ OtherLine

SpecParse == InitParse /\ [][NextParse]_vars

(***************************************************************************)
(* The line classes of the grammar, read off the text consumed so far.     *)
(***************************************************************************)
LeafReference(line) == line.kind = "entry" /\ line.hexlen = BlockIdLen

PathNode(line) == line.kind = "entry" /\ line.hexlen = 0

LastLine == lines[Len(lines)]

\* Line m is a path node still open at line n: it came earlier with a
\* strictly smaller indent, and no leaf or path-node line between the two
\* has an indent at or below its own.
IsOpenAt(m, n) ==
    /\ m < n
    /\ PathNode(lines[m])
    /\ lines[m].indent < lines[n].indent
    /\ \A j \in (m + 1)..(n - 1) :
          (LeafReference(lines[j]) \/ PathNode(lines[j]))
              => lines[j].indent > lines[m].indent

\* The keys of the path nodes open at line n, in order of appearance.
OpenPath(n) ==
    LET open == SelectSeq([m \in 1..(n - 1) |-> m], LAMBDA m : IsOpenAt(m, n))
    IN  [k \in 1..Len(open) |-> lines[open[k]].var_name]

\* C1: the path emitted for a leaf-reference line is the keys of the path
\* nodes still open at that line, in order of appearance, followed by the
\* leaf's own key; it holds no sibling, closed ancestor or earlier leaf.
C1_PathIsOpenAncestors ==
    \A k \in 1..Len(block_ids) :
        LET n == block_ids[k][3]
        IN  block_ids[k][2] = OpenPath(n) \o <<lines[n].var_name>>

\* C2: a leaf-reference line does not push its own key: after it the stack
\* is the old stack without the entries whose indent is >= the leaf's.
C2_LeafNotPushed ==
    [][(lines' # lines /\ LeafReference(lines'[Len(lines')]))
          => path_stack' = SelectSeq(path_stack,
                 LAMBDA e : e[2] < lines'[Len(lines')].indent)]_vars

\* C3: after every line the indents on the path stack increase strictly
\* from bottom to top, and every ancestor segment of an emitted path is the
\* key of a line indented strictly less than the reference's own line.
C3_StackStrictlyIncreasing ==
    /\ \A k \in 1..(Len(path_stack) - 1) : path_stack[k][2] < path_stack[k + 1][2]
    /\ \A k \in 1..Len(block_ids) :
          LET path == block_ids[k][2]
              n == block_ids[k][3]
          IN  \A j \in 1..(Len(path) - 1) :
                  /\ path[j] \in 1..(n - 1)
                  /\ lines[path[j]].indent < lines[n].indent

\* a reference below an ancestor, emitted after a deeper or equal line was closed
C3_Witness ==
    /\ Len(path_stack) >= 2
    /\ \E k \in 1..Len(block_ids) :
          LET n == block_ids[k][3]
          IN  /\ Len(block_ids[k][2]) >= 2
              /\ \E m \in 1..(n - 1) :
                    PathNode(lines[m]) /\ lines[m].indent >= lines[n].indent

\* C4: the output holds one (identifier, path, lineNumber) triple per
\* leaf-reference line and none for any other line, in input order, each
\* with the identifier and the 1-based number of its line.
C4_OneTriplePerLeafLine ==
    LET leaves == SelectSeq([n \in 1..Len(lines) |-> n],
                            LAMBDA n : LeafReference(lines[n]))
    IN  /\ Len(block_ids) = Len(leaves)
        /\ \A k \in 1..Len(block_ids) :
              /\ block_ids[k][3] = leaves[k]
              /\ block_ids[k][1] = lines[leaves[k]].value
        /\ \A k \in 1..(Len(block_ids) - 1) : block_ids[k][3] < block_ids[k + 1][3]

\* two references with other lines before and between them
C4_Witness ==
    /\ Len(block_ids) = 2
    /\ block_ids[1][3] = 2
    /\ block_ids[2][3] = 4
    /\ lines[3].kind = "entry"
    /\ lines[3].hexlen = 3

\* C5: a blank line, a comment line or a line matching neither pattern
\* (such as "foo: 123") leaves the path stack and the output unchanged.
C5_IgnoredLineChangesNothing ==
    [][(lines' # lines
          /\ ~LeafReference(lines'[Len(lines')])
          /\ ~PathNode(lines'[Len(lines')]))
          => (path_stack' = path_stack /\ block_ids' = block_ids)]_vars

\* "foo: 123" read at an indent that would have closed the open entries
C5_Witness ==
    /\ Len(lines) >= 3
    /\ LastLine.kind = "entry"
    /\ LastLine.hexlen = 3
    /\ Len(path_stack) = 2
    /\ path_stack[1][2] >= LastLine.indent
    /\ block_ids # <<>>

(***************************************************************************)
(* Snapshots: what the API returns for one environment, a list of          *)
(* scenarios {id, name, items: [{id, name}]}.                              *)
(***************************************************************************)
Envs == {"dev", "prod", "stg"}

ScenarioNames == {"S", "T"}

BlockNames == {"a", "b"}

\* the id a reference may carry that no snapshot holds
UnknownId == "id3"

\* None where a dict is expected, and None as the value of a field
None == [none |-> TRUE]

NoneField == "None"

\* Scenario ids are keys of one environment's database: the k-th scenario
\* of an environment has an id no other scenario of any environment has.
ScenarioId(env_name, k) ==
    CASE env_name = "dev"  -> <<"d1", "d2", "d3", "d4", "d5", "d6">>[k]
      [] env_name = "prod" -> <<"p1", "p2", "p3", "p4", "p5", "p6">>[k]
      [] env_name = "stg"  -> <<"s1", "s2", "s3", "s4", "s5", "s6">>[k]

Items == [id : BlockIds, name : BlockNames]

\* The snapshots of env_name holding exactly n blocks, every scenario with
\* at least one block: a snapshot of n - 1 blocks with one more block, in
\* its last scenario or in a new one.
RECURSIVE SnapshotsWith(_, _)
SnapshotsWith(env_name, n) ==
    IF n = 0 THEN {<<>>}
    ELSE LET smaller == SnapshotsWith(env_name, n - 1)
         IN  {[s EXCEPT ![Len(s)].items = Append(@, item)] :
                  s \in smaller \ {<<>>}, item \in Items}
             \cup
             {Append(s, [id |-> ScenarioId(env_name, Len(s) + 1),
                         name |-> nm, items |-> <<item>>]) :
                  s \in smaller, nm \in ScenarioNames, item \in Items}

\* the snapshots of each environment, by the number of blocks they hold
DevSnapshots == [n \in 0..MaxBlocks |-> SnapshotsWith("dev", n)]

ProdSnapshots == [n \in 0..MaxBlocks |-> SnapshotsWith("prod", n)]

StgSnapshots == [n \in 0..MaxBlocks |-> SnapshotsWith("stg", n)]

\* the orders in which the three environments may have been inserted
EnvOrders ==
    {order \in [1..3 -> Envs] : \A j, k \in 1..3 : j # k => order[j] # order[k]}

\* The lists of references: the k-th one is a block id at path <<k>>, line k.
References ==
    UNION {{[k \in 1..n |-> <<ids[k], <<k>>, k>>] :
               ids \in [1..n -> BlockIds \cup {UnknownId}]} : n \in 0..MaxRefs}

(***************************************************************************)
(* search_blocks_by_id                                                     *)
(***************************************************************************)

\* for item in items: if item.get('id') == block_id -> the first such item
FirstItemWithId(items, block_id) ==
    IF \E i \in 1..Len(items) : items[i].id = block_id
    THEN CHOOSE i \in 1..Len(items) :
            /\ items[i].id = block_id
            /\ \A j \in 1..(i - 1) : items[j].id # block_id
    ELSE 0

\* the first item of the snapshot, whatever its id
search_blocks_first(scns, block_id) ==
    IF scns = <<>> THEN None
    ELSE [scenario_id |-> scns[1].id,
          scenario_name |-> scns[1].name,
          block_id |-> block_id,
          block_name |-> scns[1].items[1].name]

search_blocks_by_id(scns, block_id) ==
    IF \E s \in 1..Len(scns) : FirstItemWithId(scns[s].items, block_id) # 0
    THEN LET s == CHOOSE s \in 1..Len(scns) :
                    /\ FirstItemWithId(scns[s].items, block_id) # 0
                    /\ \A t \in 1..(s - 1) : FirstItemWithId(scns[t].items, block_id) = 0
             i == FirstItemWithId(scns[s].items, block_id)
         IN  [scenario_id |-> scns[s].id,
              scenario_name |-> scns[s].name,
              block_id |-> block_id,
              block_name |-> scns[s].items[i].name]
    ELSE None

(***************************************************************************)
(* validate_block_ids                                                      *)
(***************************************************************************)

\* all_blocks after the items of one scenario, from item i on:
\* all_blocks[block_id] = {...} overwrites an entry already there
RECURSIVE AddItems(_, _, _)
AddItems(all_blocks, scenario, i) ==
    IF i > Len(scenario.items) THEN all_blocks
    ELSE LET item == scenario.items[i]
             info == [scenario_id |-> scenario.id,
                      scenario_name |-> scenario.name,
                      block_name |-> item.name]
         IN  AddItems((item.id :> info) @@ all_blocks, scenario, i + 1)

RECURSIVE AddScenarios(_, _, _)
AddScenarios(all_blocks, scns, s) ==
    IF s > Len(scns) THEN all_blocks
    ELSE AddScenarios(AddItems(all_blocks, scns[s], 1), scns, s + 1)

AllBlocksFirstScenarioOnly(scns) ==
    IF scns = <<>> THEN <<>> ELSE AddItems(<<>>, scns[1], 1)

\* the dict all_blocks built by the two loops
AllBlocks(scns) == AddScenarios(<<>>, scns, 1)

\* only the references that resolve are reported
validate_block_ids_resolved_only(refs, scns, env_name) ==
    LET all_blocks == AllBlocks(scns)
        InSnapshot(ref) == ref[1] \in DOMAIN all_blocks
        resolved == SelectSeq(refs, InSnapshot)
    IN  [k \in 1..Len(resolved) |->
            [block_id |-> resolved[k][1], path |-> resolved[k][2],
             line_number |-> resolved[k][3], valid |-> TRUE,
             scenario_id |-> all_blocks[resolved[k][1]].scenario_id,
             scenario_name |-> all_blocks[resolved[k][1]].scenario_name,
             block_name |-> all_blocks[resolved[k][1]].block_name]]

validate_block_ids(refs, scns, env_name) ==
    LET all_blocks == AllBlocks(scns)
    IN  [k \in 1..Len(refs) |->
            LET block_id == refs[k][1]
                path == refs[k][2]
                line_num == refs[k][3]
            IN  IF block_id \in DOMAIN all_blocks
                THEN [block_id |-> block_id, path |-> path, line_number |-> line_num,
                      valid |-> TRUE,
                      scenario_id |-> all_blocks[block_id].scenario_id,
                      scenario_name |-> all_blocks[block_id].scenario_name,
                      block_name |-> all_blocks[block_id].block_name]
                ELSE [block_id |-> block_id, path |-> path, line_number |-> line_num,
                      valid |-> FALSE,
                      scenario_id |-> NoneField,
                      scenario_name |-> NoneField,
                      block_name |-> NoneField]]

\* display_validation_results: sum(1 for r in results if r['valid'])
RECURSIVE valid_count(_)
valid_count(res) ==
    IF res = <<>> THEN 0
    ELSE (IF Head(res).valid THEN 1 ELSE 0) + valid_count(Tail(res))

invalid_count(res) == Len(res) - valid_count(res)

(***************************************************************************)
(* The validator as a function: the references and the snapshot are drawn, *)
(* validate_block_ids is applied to them.                                  *)
(***************************************************************************)
InitValidate ==
    /\ pc = "validate"
    /\ lines = <<>>
    /\ path_stack = <<>>
    /\ block_ids \in References
    /\ \E n \in 0..MaxBlocks : scenarios \in DevSnapshots[n]
    /\ results = <<>>
    /\ env_scenarios = <<>>
    /\ search_input = ""
    /\ env_results = <<>>
    /\ NoSession

Validate ==
    /\ pc = "validate"
    /\ results' = validate_block_ids(block_ids, scenarios, "dev")
    /\ pc' = "validated"
    /\ UNCHANGED <<parseVars, scenarios, searchVars, mainVars>>

NextValidate == Validate

SpecValidate == InitValidate /\ [][NextValidate]_vars

(***************************************************************************)
(* The Dataset Index lookups, read off a snapshot.                         *)
(***************************************************************************)

\* the places <<s, i>> of the items of a snapshot that carry an identifier
Occurrences(scns, id) ==
    {<<s, i>> \in (1..Len(scns)) \X (1..MaxBlocks + 1) :
        i <= Len(scns[s].items) /\ scns[s].items[i].id = id}

Before(x, y) == x[1] < y[1] \/ (x[1] = y[1] /\ x[2] <= y[2])

\* the first occurrence in snapshot order: first collection, first item
FirstOccurrence(scns, id) ==
    CHOOSE x \in Occurrences(scns, id) : \A y \in Occurrences(scns, id) : Before(x, y)

\* C6: a reference whose identifier is the id of an item of the snapshot is
\* reported valid with the collection name and item name of an item with
\* that id; any other reference is reported invalid with every resolved
\* field empty.
C6_ValidIffInSnapshot ==
    pc = "validated" =>
        /\ Len(results) = Len(block_ids)
        /\ \A k \in 1..Len(results) :
              LET r == results[k]
                  occ == Occurrences(scenarios, block_ids[k][1])
              IN  IF occ # {}
                  THEN /\ r.valid
                       /\ \E x \in occ :
                             /\ r.scenario_name = scenarios[x[1]].name
                             /\ r.block_name = scenarios[x[1]].items[x[2]].name
                  ELSE /\ ~r.valid
                       /\ r.scenario_id = NoneField
                       /\ r.scenario_name = NoneField
                       /\ r.block_name = NoneField

\* a known and an unknown reference validated against two scenarios
C6_Witness ==
    /\ pc = "validated"
    /\ Len(scenarios) = 2
    /\ Len(results) = 2
    /\ results[1].valid
    /\ results[1].scenario_id = scenarios[2].id
    /\ ~results[2].valid

\* C7: an identifier held by several items of a snapshot resolves to the
\* first of them in snapshot order, in validate_block_ids as in
\* search_blocks_by_id, so that the two agree on the names.
C7_FirstMatchWins ==
    pc = "validated" =>
        \A k \in 1..Len(results) :
            LET id == block_ids[k][1]
                r == results[k]
            IN  Occurrences(scenarios, id) # {} =>
                    LET x == FirstOccurrence(scenarios, id)
                        hit == search_blocks_by_id(scenarios, id)
                    IN  /\ hit.scenario_name = scenarios[x[1]].name
                        /\ hit.block_name = scenarios[x[1]].items[x[2]].name
                        /\ r.scenario_name = scenarios[x[1]].name
                        /\ r.block_name = scenarios[x[1]].items[x[2]].name

\* C14: there is one result per reference, in the order of the references,
\* each with the identifier, path and line number of the reference at its
\* position, one per occurrence of a repeated identifier; the valid and the
\* invalid results counted for the display add up to the references.
C14_OneResultPerReference ==
    pc = "validated" =>
        /\ Len(results) = Len(block_ids)
        /\ \A k \in 1..Len(block_ids) :
              /\ results[k].block_id = block_ids[k][1]
              /\ results[k].path = block_ids[k][2]
              /\ results[k].line_number = block_ids[k][3]
        /\ valid_count(results) = Cardinality({k \in 1..Len(block_ids) : results[k].valid})
        /\ valid_count(results) + invalid_count(results) = Len(block_ids)

\* the same identifier referenced twice, at two paths, and held by no item
\* of the snapshot
C14_Witness ==
    /\ pc = "validated"
    /\ scenarios # <<>>
    /\ Len(block_ids) = 2
    /\ block_ids[1][1] = block_ids[2][1]
    /\ block_ids[1][2] # block_ids[2][2]
    /\ Len(results) = 2
    /\ ~results[1].valid
    /\ invalid_count(results) = 2

(***************************************************************************)
(* find_matching_blocks_in_other_envs                                      *)
(***************************************************************************)

\* for scenario in scenarios: if scenario.get('name') == scenario_name: break
FirstScenarioNamed(scns, scenario_name) ==
    IF \E s \in 1..Len(scns) : scns[s].name = scenario_name
    THEN CHOOSE s \in 1..Len(scns) :
            /\ scns[s].name = scenario_name
            /\ \A t \in 1..(s - 1) : scns[t].name # scenario_name
    ELSE 0

FirstItemAnyName(items, block_name) == IF items = <<>> THEN 0 ELSE 1

\* for item in items: if item.get('name') == block_name: ... break
FirstItemNamed(items, block_name) ==
    IF \E i \in 1..Len(items) : items[i].name = block_name
    THEN CHOOSE i \in 1..Len(items) :
            /\ items[i].name = block_name
            /\ \A j \in 1..(i - 1) : items[j].name # block_name
    ELSE 0

\* the body of the loop over env_scenarios.items(): results[env_name]
MatchingBlock(scns, scenario_name, block_name) ==
    IF scns = <<>> THEN None
    ELSE LET s == FirstScenarioNamed(scns, scenario_name)
         IN  IF s = 0 THEN None
             ELSE LET i == FirstItemNamed(scns[s].items, block_name)
                  IN  IF i = 0 THEN None
                      ELSE [scenario_id |-> scns[s].id,
                            scenario_name |-> scenario_name,
                            block_id |-> scns[s].items[i].id,
                            block_name |-> block_name]

\* a dict is kept as its keys in insertion order (the env_name fields of
\* envs) and the function from key to value
EnvNames(envs) == {envs[k].env_name : k \in 1..Len(envs)}

ScenariosOf(envs, env_name) ==
    envs[CHOOSE k \in 1..Len(envs) : envs[k].env_name = env_name].scenarios

find_matching_blocks_in_other_envs(envs, source_env, scenario_name, block_name) ==
    [env_name \in EnvNames(envs) |->
        MatchingBlock(ScenariosOf(envs, env_name), scenario_name, block_name)]

(***************************************************************************)
(* search_by_block_id_multi_env                                            *)
(***************************************************************************)

\* found_blocks[env_name] after the first loop, before source_info['env']
FoundById(envs, block_id) ==
    [env_name \in EnvNames(envs) |->
        IF ScenariosOf(envs, env_name) # <<>>
        THEN search_blocks_by_id(ScenariosOf(envs, env_name), block_id)
        ELSE None]

\* the last environment whose search_blocks_by_id result is not None
SourceIndexLast(envs, block_id) ==
    LET found == FoundById(envs, block_id)
    IN  IF \E k \in 1..Len(envs) : found[envs[k].env_name] # None
        THEN CHOOSE k \in 1..Len(envs) :
                /\ found[envs[k].env_name] # None
                /\ \A j \in (k + 1)..Len(envs) : found[envs[j].env_name] = None
        ELSE 0

\* the position in envs of the environment source_info is taken from: the
\* first one whose search_blocks_by_id result is not None; 0 for none
SourceIndex(envs, block_id) ==
    LET found == FoundById(envs, block_id)
    IN  IF \E k \in 1..Len(envs) : found[envs[k].env_name] # None
        THEN CHOOSE k \in 1..Len(envs) :
                /\ found[envs[k].env_name] # None
                /\ \A j \in 1..(k - 1) : found[envs[j].env_name] = None
        ELSE 0

search_by_block_id_multi_env(envs, block_id) ==
    LET found == FoundById(envs, block_id)
        src == SourceIndex(envs, block_id)
    IN  IF src = 0 THEN found
        ELSE LET source_env == envs[src].env_name
                 \* source_info is the dict stored in found_blocks: setting
                 \* source_info['env'] adds the key to that entry
                 source_info == [scenario_id |-> found[source_env].scenario_id,
                                 scenario_name |-> found[source_env].scenario_name,
                                 block_id |-> found[source_env].block_id,
                                 block_name |-> found[source_env].block_name,
                                 env |-> source_env]
                 found_blocks == [found EXCEPT ![source_env] = source_info]
                 matching_blocks == find_matching_blocks_in_other_envs(
                     envs, source_env, source_info.scenario_name, source_info.block_name)
             IN  [env_name \in EnvNames(envs) |->
                     IF matching_blocks[env_name] # None /\ found_blocks[env_name] = None
                     THEN matching_blocks[env_name]
                     ELSE found_blocks[env_name]]

(***************************************************************************)
(* The block id search as a function: env_scenarios holds the three        *)
(* environments in any insertion order, each with a snapshot (possibly     *)
(* empty), the snapshots holding MaxTotalBlocks blocks at most together;   *)
(* the block id is drawn and search_by_block_id_multi_env applied.         *)
(***************************************************************************)
InitSearch ==
    /\ pc = "search"
    /\ lines = <<>>
    /\ path_stack = <<>>
    /\ block_ids = <<>>
    /\ scenarios = <<>>
    /\ results = <<>>
    /\ \E nd, np, ng \in 0..MaxBlocks :
          /\ nd + np + ng <= MaxTotalBlocks
          /\ \E d \in DevSnapshots[nd], p \in ProdSnapshots[np], g \in StgSnapshots[ng],
                order \in EnvOrders :
                env_scenarios =
                    [k \in 1..Len(order) |->
                        [env_name |-> order[k],
                         scenarios |-> CASE order[k] = "dev" -> d
                                         [] order[k] = "prod" -> p
                                         [] order[k] = "stg" -> g]]
    /\ search_input = ""
    /\ env_results = <<>>
    /\ NoSession

SearchByBlockId ==
    /\ pc = "search"
    /\ \E block_id \in BlockIds \cup {UnknownId} :
          /\ search_input' = block_id
          /\ env_results' = search_by_block_id_multi_env(env_scenarios, block_id)
    /\ pc' = "searched"
    /\ UNCHANGED <<parseVars, validateVars, env_scenarios, mainVars>>

NextSearch == SearchByBlockId

SpecSearch == InitSearch /\ [][NextSearch]_vars

\* byIdentifier on the snapshot of an environment: the first occurrence
ByIdentifier(scns, id) ==
    IF Occurrences(scns, id) = {} THEN None
    ELSE LET x == FirstOccurrence(scns, id)
         IN  [scenario_id |-> scns[x[1]].id, scenario_name |-> scns[x[1]].name,
              block_id |-> id, block_name |-> scns[x[1]].items[x[2]].name]

\* byCollectionAndItemName: the first collection of that name, then the
\* first item of that name within it
ByCollectionAndItemName(scns, scenario_name, block_name) ==
    LET named == {s \in 1..Len(scns) : scns[s].name = scenario_name}
    IN  IF named = {} THEN None
        ELSE LET s == CHOOSE s \in named : \A t \in named : s <= t
                 items == {i \in 1..Len(scns[s].items) :
                              scns[s].items[i].name = block_name}
             IN  IF items = {} THEN None
                 ELSE LET i == CHOOSE i \in items : \A j \in items : i <= j
                      IN  [scenario_id |-> scns[s].id, scenario_name |-> scenario_name,
                           block_id |-> scns[s].items[i].id, block_name |-> block_name]

SameEntry(entry, info) ==
    IF info = None THEN entry = None
    ELSE /\ entry # None
         /\ entry.scenario_id = info.scenario_id
         /\ entry.scenario_name = info.scenario_name
         /\ entry.block_id = info.block_id
         /\ entry.block_name = info.block_name

Loaded(env_name) == ScenariosOf(env_scenarios, env_name)

\* the environment the matcher is seeded from: the first one, in insertion
\* order, in which the identifier resolves; 0 when it resolves in none
SourcePosition ==
    LET hits == {k \in 1..Len(env_scenarios) :
                    Occurrences(env_scenarios[k].scenarios, search_input) # {}}
    IN  IF hits = {} THEN 0 ELSE CHOOSE k \in hits : \A j \in hits : k <= j

\* C8: when the queried identifier resolves in A, the environment the
\* matcher is seeded from, to an item whose (collectionName, itemName)
\* resolves in B to an item with another identifier, the result holds B's
\* item under B's key and A's own item under A's key, whatever else the
\* snapshots contain.
C8_SameNamesOtherIdentifier ==
    (pc = "searched" /\ SourcePosition # 0) =>
        LET A == env_scenarios[SourcePosition].env_name
            a == ByIdentifier(Loaded(A), search_input)
        IN  \A B \in EnvNames(env_scenarios) \ {A} :
                LET b == ByCollectionAndItemName(Loaded(B), a.scenario_name,
                                                 a.block_name)
                IN  (b # None /\ b.block_id # search_input) =>
                        /\ SameEntry(env_results[A], a)
                        /\ SameEntry(env_results[B], b)

\* C9: the source environment's entry is the item found by identifier, and
\* the entry of every other environment is the result of the name lookup
\* of the source item's (collectionName, itemName) there, absent when that
\* finds nothing, also when the identifier occurs there under other names.
C9_OtherEnvsByNameLookup ==
    (pc = "searched" /\ SourcePosition # 0) =>
        LET source_env == env_scenarios[SourcePosition].env_name
            source == ByIdentifier(Loaded(source_env), search_input)
        IN  /\ SameEntry(env_results[source_env], source)
            /\ \A e \in EnvNames(env_scenarios) \ {source_env} :
                  SameEntry(env_results[e],
                            ByCollectionAndItemName(Loaded(e), source.scenario_name,
                                                    source.block_name))

\* C10: every entry of the result that is not absent is an actual
\* (collection, item) pair of that environment's own snapshot.
C10_EntriesAreItemsOfTheirSnapshot ==
    pc = "searched" =>
        \A e \in EnvNames(env_scenarios) :
            env_results[e] # None =>
                \E s \in 1..Len(Loaded(e)) :
                    \E i \in 1..Len(Loaded(e)[s].items) :
                        /\ env_results[e].scenario_id = Loaded(e)[s].id
                        /\ env_results[e].scenario_name = Loaded(e)[s].name
                        /\ env_results[e].block_id = Loaded(e)[s].items[i].id
                        /\ env_results[e].block_name = Loaded(e)[s].items[i].name

\* one entry found by identifier, one found by name with another
\* identifier, in a snapshot that also holds a block of another name
C10_Witness ==
    /\ pc = "searched"
    /\ \E A, B \in EnvNames(env_scenarios) :
          /\ env_results[A] # None
          /\ env_results[A].block_id = search_input
          /\ env_results[B] # None
          /\ env_results[B].block_id # search_input
          /\ \E s \in 1..Len(Loaded(B)) :
                /\ Len(Loaded(B)[s].items) = 2
                /\ Loaded(B)[s].items[1].name # env_results[B].block_name

\* C11: when the queried identifier resolves in no environment, the result
\* is absent (None) for every environment, also for an environment that
\* holds blocks: no entry is filled in by a lookup by name.
C11_UnresolvedIsAbsentEverywhere ==
    (pc = "searched" /\ SourcePosition = 0) =>
        /\ DOMAIN env_results = EnvNames(env_scenarios)
        /\ \A e \in EnvNames(env_scenarios) : env_results[e] = None

\* an identifier no snapshot holds, searched in three environments of
\* which two hold blocks
C11_Witness ==
    /\ pc = "searched"
    /\ SourcePosition = 0
    /\ Len(env_scenarios) = 3
    /\ \E A, B \in EnvNames(env_scenarios) :
          A # B /\ Loaded(A) # <<>> /\ Loaded(B) # <<>>
    /\ \A e \in EnvNames(env_scenarios) : env_results[e] = None

(***************************************************************************)
(* Strings: str.lower, the operator "in" and the order of two strings, on  *)
(* the characters the names, identifiers and terms of the model are made   *)
(* of.                                                                     *)
(***************************************************************************)
lower_char(c) ==
    CASE c = "A" -> "a"
      [] c = "B" -> "b"
      [] c = "C" -> "c"
      [] c = "S" -> "s"
      [] c = "T" -> "t"
      [] OTHER -> c

RECURSIVE lower(_)
lower(str) ==
    IF str = "" THEN "" ELSE lower_char(SubSeq(str, 1, 1)) \o lower(Tail(str))

\* sub in str
Contains(sub, str) ==
    IF sub = "" THEN TRUE
    ELSE \E i \in 1..(Len(str) - Len(sub) + 1) :
            SubSeq(str, i, i + Len(sub) - 1) = sub

\* the code point of a character
ord(c) ==
    CASE c = " " -> 32
      [] c = "1" -> 49
      [] c = "2" -> 50
      [] c = "3" -> 51
      [] c = ":" -> 58
      [] c = "A" -> 65
      [] c = "B" -> 66
      [] c = "C" -> 67
      [] c = "S" -> 83
      [] c = "T" -> 84
      [] c = "a" -> 97
      [] c = "b" -> 98
      [] c = "c" -> 99
      [] c = "d" -> 100
      [] c = "i" -> 105

\* x < y on strings: by the first character that differs, a proper prefix
\* before the longer string
RECURSIVE StrLess(_, _)
StrLess(x, y) ==
    IF y = "" THEN FALSE
    ELSE IF x = "" THEN TRUE
    ELSE IF SubSeq(x, 1, 1) # SubSeq(y, 1, 1)
         THEN ord(SubSeq(x, 1, 1)) < ord(SubSeq(y, 1, 1))
         ELSE StrLess(Tail(x), Tail(y))

(***************************************************************************)
(* search_blocks, search_blocks_multi_env                                  *)
(***************************************************************************)

\* the blocks of a snapshot in the order of the two loops of search_blocks,
\* each as the dict search_blocks appends for it
RECURSIVE BlocksOf(_)
BlocksOf(scns) ==
    IF scns = <<>> THEN <<>>
    ELSE LET scenario == Head(scns)
         IN  [i \in 1..Len(scenario.items) |->
                 [scenario_id |-> scenario.id,
                  scenario_name |-> scenario.name,
                  block_id |-> scenario.items[i].id,
                  block_name |-> scenario.items[i].name]]
             \o BlocksOf(Tail(scns))

\* search_term_lower in block_name.lower()
NameMatch(search_term, block_name) == Contains(lower(search_term), lower(block_name))

search_blocks(scns, search_term) ==
    IF search_term = "" THEN <<>>
    ELSE LET Hit(block) == NameMatch(search_term, block.block_name)
         IN  SelectSeq(BlocksOf(scns), Hit)

\* the dict {env_name: results}, in the insertion order of env_scenarios
search_blocks_multi_env(envs, search_term) ==
    [k \in 1..Len(envs) |->
        [env_name |-> envs[k].env_name,
         results |-> IF envs[k].scenarios # <<>>
                     THEN search_blocks(envs[k].scenarios, search_term)
                     ELSE <<>>]]

(***************************************************************************)
(* display_search_results_multi_env                                        *)
(***************************************************************************)

\* the hits in the order of the two loops, each with its environment
RECURSIVE HitsOf(_)
HitsOf(name_results) ==
    IF name_results = <<>> THEN <<>>
    ELSE LET first == Head(name_results)
         IN  [i \in 1..Len(first.results) |->
                 [env_name |-> first.env_name, result |-> first.results[i]]]
             \o HitsOf(Tail(name_results))

\* key = f"{scenario_name}::{block_name}"
GroupKey(result) == result.scenario_name \o "::" \o result.block_name

\* block_groups[key]: the names of the first hit with that key, and per
\* environment the ids of its last hit with that key
BlockGroup(hits, key) ==
    LET with_key == {i \in 1..Len(hits) : GroupKey(hits[i].result) = key}
        first == CHOOSE i \in with_key : \A j \in with_key : i <= j
        group_envs == {hits[i].env_name : i \in with_key}
        LastIn(e) == CHOOSE i \in with_key :
                        /\ hits[i].env_name = e
                        /\ \A j \in with_key : hits[j].env_name = e => j <= i
    IN  [key |-> key,
         scenario_name |-> hits[first].result.scenario_name,
         block_name |-> hits[first].result.block_name,
         envs |-> [e \in group_envs |->
                      [scenario_id |-> hits[LastIn(e)].result.scenario_id,
                       block_id |-> hits[LastIn(e)].result.block_id]]]

\* sorted(block_groups.items()): the keys are distinct, so the order is
\* the order of the keys
RECURSIVE SortedKeys(_)
SortedKeys(keys) ==
    IF keys = {} THEN <<>>
    ELSE LET least == CHOOSE x \in keys : \A y \in keys \ {x} : StrLess(x, y)
         IN  <<least>> \o SortedKeys(keys \ {least})

\* the groups printed, in the order they are printed
display_search_results_multi_env(name_results) ==
    LET hits == HitsOf(name_results)
        keys == SortedKeys({GroupKey(hits[i].result) : i \in 1..Len(hits)})
    IN  [n \in 1..Len(keys) |-> BlockGroup(hits, keys[n])]

(***************************************************************************)
(* The search by name as a function: the three environments hold snapshots *)
(* whose names include a name that is another name followed by more        *)
(* characters, and names that hold "::"; a term is drawn, the hits are     *)
(* searched and grouped.                                                   *)
(***************************************************************************)
NamedScenarioNames == {"A", "A 1", "A::B"}

NamedBlockNames == {"c", "B::c"}

NamedItems == [id : {"id1"}, name : NamedBlockNames]

NameTerms == {"", "C", "b"}

\* SnapshotsWith over other names and items
RECURSIVE SnapshotsOf(_, _, _, _)
SnapshotsOf(env_name, n, scenario_names, items) ==
    IF n = 0 THEN {<<>>}
    ELSE LET smaller == SnapshotsOf(env_name, n - 1, scenario_names, items)
         IN  {[s EXCEPT ![Len(s)].items = Append(@, item)] :
                  s \in smaller \ {<<>>}, item \in items}
             \cup
             {Append(s, [id |-> ScenarioId(env_name, Len(s) + 1),
                         name |-> nm, items |-> <<item>>]) :
                  s \in smaller, nm \in scenario_names, item \in items}

NamedSnapshots ==
    [e \in Envs |-> [n \in 0..MaxBlocks |->
        SnapshotsOf(e, n, NamedScenarioNames, NamedItems)]]

InitNameSearch ==
    /\ pc = "name_search"
    /\ lines = <<>>
    /\ path_stack = <<>>
    /\ block_ids = <<>>
    /\ scenarios = <<>>
    /\ results = <<>>
    /\ \E nd, np, ng \in 0..MaxBlocks :
          /\ nd + np + ng <= MaxTotalBlocks
          /\ \E d \in NamedSnapshots["dev"][nd], p \in NamedSnapshots["prod"][np],
                g \in NamedSnapshots["stg"][ng], order \in EnvOrders :
                env_scenarios =
                    [k \in 1..Len(order) |->
                        [env_name |-> order[k],
                         scenarios |-> CASE order[k] = "dev" -> d
                                         [] order[k] = "prod" -> p
                                         [] order[k] = "stg" -> g]]
    /\ search_input = ""
    /\ env_results = <<>>
    /\ NoSession

SearchByName ==
    /\ pc = "name_search"
    /\ \E search_term \in NameTerms :
          /\ search_input' = search_term
          /\ env_results' = search_blocks_multi_env(env_scenarios, search_term)
          /\ rows' = display_search_results_multi_env(
                         search_blocks_multi_env(env_scenarios, search_term))
    /\ pc' = "name_searched"
    /\ UNCHANGED <<parseVars, validateVars, env_scenarios, shown, cookies, fetches>>

NextNameSearch == SearchByName

SpecNameSearch == InitNameSearch /\ [][NextNameSearch]_vars

\* the (collectionName, itemName) pairs among the hits
HitPairs ==
    {<<h.result.scenario_name, h.result.block_name>> :
        h \in {HitsOf(env_results)[i] : i \in 1..Len(HitsOf(env_results))}}

\* the environments with a hit of that pair
EnvsOfPair(pair) ==
    {env_results[k].env_name : k \in
        {k \in 1..Len(env_results) :
            \E i \in 1..Len(env_results[k].results) :
                /\ env_results[k].results[i].scenario_name = pair[1]
                /\ env_results[k].results[i].block_name = pair[2]}}

PairLess(p, q) == StrLess(p[1], q[1]) \/ (p[1] = q[1] /\ StrLess(p[2], q[2]))

RowPair(row) == <<row.scenario_name, row.block_name>>

\* C13: the rows are the distinct (collectionName, itemName) pairs among
\* the hits, one row per pair holding the environments that have a hit of
\* that pair, and they are listed in ascending order of the pair.
C13_RowsAreDistinctPairsInOrder ==
    pc = "name_searched" =>
        /\ Len(rows) = Cardinality(HitPairs)
        /\ {RowPair(rows[n]) : n \in 1..Len(rows)} = HitPairs
        /\ \A n \in 1..Len(rows) : DOMAIN rows[n].envs = EnvsOfPair(RowPair(rows[n]))
        /\ \A m, n \in 1..Len(rows) : m < n => PairLess(RowPair(rows[m]), RowPair(rows[n]))

(***************************************************************************)
(* main: the session. The API answers each request with a failure or with  *)
(* a list of scenarios, which may differ from one request to the next;     *)
(* the cookies are read from the environment, which the session never      *)
(* changes.                                                                *)
(***************************************************************************)

\* blocks held by the snapshots stored in env_scenarios together
MaxSessionBlocks == 2

SessionScenarioNames == {"S"}

\* a block found by its id and by part of its name, and a block whose
\* name is the id of the first
SessionItems == {[id |-> "id1", name |-> "a"], [id |-> "id2", name |-> "id1"]}

SessionSnapshots ==
    [e \in Envs |-> [n \in 0..MaxBlocks |->
        SnapshotsOf(e, n, SessionScenarioNames, SessionItems)]]

\* what may be typed at the prompt of the search mode, other than 0 or exit
SearchTerms == BlockIds \cup {UnknownId, "A", ""}

\* What may be typed in for command 6, the blank lines dropped by the
\* input loop: nothing, a comment, a key with no value, one reference, a
\* reference under a key, two references.
Texts ==
    LET Key(n, indent) ==
            [kind |-> "entry", indent |-> indent, var_name |-> n,
             hexlen |-> 0, value |-> ""]
        Ref(n, indent, id) ==
            [kind |-> "entry", indent |-> indent, var_name |-> n,
             hexlen |-> BlockIdLen, value |-> id]
    IN  {<<>>, <<CommentLine>>, <<Key(1, 0)>>}
        \cup {<<Ref(1, 0, id)>> : id \in BlockIds}
        \cup {<<Key(1, 0), Ref(2, 1, id)>> : id \in BlockIds}
        \cup {<<Ref(1, 0, "id1"), Ref(2, 0, "id2")>>}

RECURSIVE NumBlocks(_)
NumBlocks(scns) ==
    IF scns = <<>> THEN 0 ELSE Len(Head(scns).items) + NumBlocks(Tail(scns))

RECURSIVE TotalBlocks(_)
TotalBlocks(envs) ==
    IF envs = <<>> THEN 0 ELSE NumBlocks(Head(envs).scenarios) + TotalBlocks(Tail(envs))

\* the answers of the API to a request for env_name: the request fails,
\* the body has status 'fail', the body has no 'data' or a 'data' of
\* another shape, the body is no JSON object, or the body holds a list of
\* scenarios with at most room blocks
Responses(env_name, room) ==
    {[kind |-> "request_failed"], [kind |-> "fail_status"],
     [kind |-> "unrecognized"], [kind |-> "not_an_object"]}
    \cup {[kind |-> "data", data |-> scns] :
            scns \in UNION {SessionSnapshots[env_name][n] :
                               n \in {n \in 0..MaxBlocks : n <= room}}}

NoRequest == [kind |-> "no_request"]

\* what a call ends with: a value returned, or SystemExit raised
Returned(scns) == [outcome |-> "return", scenarios |-> scns]

ReturnedNone == [outcome |-> "return_none"]

SysExit == [outcome |-> "sys_exit"]

\* returns response.json(); RequestException -> sys.exit(1)
fetch_scenarios(response) ==
    IF response.kind = "request_failed" THEN SysExit ELSE Returned(response)

\* status 'fail', no 'data', unrecognized 'data' -> sys.exit(1)
extract_items(data) ==
    IF data.kind \in {"fail_status", "unrecognized"} THEN SysExit
    ELSE Returned(data.data)

\* except Exception catches what data.get raises on a body that is no
\* object; it does not catch SystemExit
load_environment_data(env_name, cookie, response) ==
    IF ~cookie THEN ReturnedNone
    ELSE IF response.kind = "not_an_object" THEN ReturnedNone
    ELSE LET response_data == fetch_scenarios(response)
         IN  IF response_data.outcome = "sys_exit" THEN SysExit
             ELSE extract_items(response_data.scenarios)

\* if scenarios: env_scenarios[env_name] = scenarios
Store(envs, env_name, loaded) ==
    IF loaded.outcome = "return" /\ loaded.scenarios # <<>>
    THEN Append(envs, [env_name |-> env_name, scenarios |-> loaded.scenarios])
    ELSE envs

\* if env_name not in env_scenarios: load and store; st is the session
\* so far: env_scenarios, the requests answered, and whether SystemExit
\* was raised
LoadInto(st, env_name, response) ==
    IF st.exit \/ env_name \in EnvNames(st.envs) THEN st
    ELSE LET loaded == load_environment_data(env_name, env_name \in cookies, response)
         IN  IF loaded.outcome = "sys_exit" THEN [st EXCEPT !.exit = TRUE]
             ELSE [envs |-> Store(st.envs, env_name, loaded),
                   answered |-> IF loaded.outcome = "return"
                                THEN [st.answered EXCEPT ![env_name] =
                                         IF @ = "never" THEN "once" ELSE "again"]
                                ELSE st.answered,
                   exit |-> FALSE]

\* the answers the API may give where LoadInto sends a request
ResponsesFor(st, env_name) ==
    IF st.exit \/ env_name \in EnvNames(st.envs) \/ env_name \notin cookies
    THEN {NoRequest}
    ELSE Responses(env_name, MaxSessionBlocks - TotalBlocks(st.envs))

Session == [envs |-> env_scenarios, answered |-> fetches, exit |-> FALSE]

\* what a command leaves behind: the message or table printed, and the
\* values it was printed from
Output(tag, term, found, groups, refs, validated) ==
    /\ shown' = tag
    /\ search_input' = term
    /\ env_results' = found
    /\ rows' = groups
    /\ block_ids' = refs
    /\ results' = validated

\* SystemExit leaves main: nothing more is stored or printed
Exit ==
    /\ pc' = "sys_exit"
    /\ UNCHANGED <<parseVars, validateVars, searchVars, mainVars>>

\* the session goes on after the loads of a command
Continue(st, next_pc) ==
    /\ pc' = next_pc
    /\ env_scenarios' = st.envs
    /\ fetches' = st.answered
    /\ UNCHANGED <<lines, path_stack, scenarios, cookies>>

display_all_scenarios(scns) ==
    IF scns = <<>> THEN "no_scenarios" ELSE "all_scenarios"

Init ==
    /\ pc = "start"
    /\ lines = <<>>
    /\ path_stack = <<>>
    /\ block_ids = <<>>
    /\ scenarios = <<>>
    /\ results = <<>>
    /\ env_scenarios = <<>>
    /\ search_input = ""
    /\ env_results = <<>>
    /\ rows = <<>>
    /\ shown = ""
    /\ cookies \in SUBSET Envs
    /\ fetches = [e \in Envs |-> "never"]

\* env_scenarios = {}; the dev environment is loaded first
InitialLoad ==
    /\ pc = "start"
    /\ \E response \in ResponsesFor(Session, "dev") :
          LET st == LoadInto(Session, "dev", response)
          IN  IF st.exit THEN Exit
              ELSE /\ Continue(st, "menu")
                   /\ Output("menu", "", <<>>, <<>>, <<>>, <<>>)

\* "0", "exit", or KeyboardInterrupt at the prompt
CmdExit ==
    /\ pc = "menu"
    /\ pc' = "exited"
    /\ Output("bye", "", <<>>, <<>>, <<>>, <<>>)
    /\ UNCHANGED <<lines, path_stack, scenarios, env_scenarios, cookies, fetches>>

\* "1"
CmdShowDev ==
    /\ pc = "menu"
    /\ Continue(Session, "menu")
    /\ Output(IF "dev" \notin EnvNames(env_scenarios) THEN "no_dev_data"
             ELSE display_all_scenarios(ScenariosOf(env_scenarios, "dev")),
             "", <<>>, <<>>, <<>>, <<>>)

\* "2" and "3"
CmdShowEnv(env_name) ==
    /\ pc = "menu"
    /\ \E response \in ResponsesFor(Session, env_name) :
          LET st == LoadInto(Session, env_name, response)
          IN  IF st.exit THEN Exit
              ELSE /\ Continue(st, "menu")
                   /\ Output(IF env_name \in EnvNames(st.envs)
                            THEN display_all_scenarios(ScenariosOf(st.envs, env_name))
                            ELSE "cannot_load",
                            "", <<>>, <<>>, <<>>, <<>>)

\* "4"
CmdCompare ==
    /\ pc = "menu"
    /\ \E rd \in ResponsesFor(Session, "dev") :
          LET st1 == LoadInto(Session, "dev", rd)
          IN  \E rp \in ResponsesFor(st1, "prod") :
                 LET st2 == LoadInto(st1, "prod", rp)
                 IN  \E rs \in ResponsesFor(st2, "stg") :
                        LET st3 == LoadInto(st2, "stg", rs)
                        IN  IF st3.exit THEN Exit
                            ELSE /\ Continue(st3, "menu")
                                 /\ Output(IF st3.envs # <<>> THEN "comparison"
                                          ELSE "nothing_to_compare",
                                          "", <<>>, <<>>, <<>>, <<>>)

\* "5": the environments are loaded and the search mode is entered
CmdSearchMode ==
    /\ pc = "menu"
    /\ \E rd \in ResponsesFor(Session, "dev") :
          LET st1 == LoadInto(Session, "dev", rd)
          IN  \E rp \in ResponsesFor(st1, "prod") :
                 LET st2 == LoadInto(st1, "prod", rp)
                 IN  \E rs \in ResponsesFor(st2, "stg") :
                        LET st3 == LoadInto(st2, "stg", rs)
                        IN  IF st3.exit THEN Exit
                            ELSE IF st3.envs = <<>>
                            THEN /\ Continue(st3, "menu")
                                 /\ Output("nothing_to_search", "", <<>>, <<>>, <<>>, <<>>)
                            ELSE /\ Continue(st3, "search_mode")
                                 /\ Output("search_menu", "", <<>>, <<>>, <<>>, <<>>)

\* only the environment stored first is looked at
block_id_found_in_first(envs, search_term) ==
    /\ envs # <<>>
    /\ envs[1].scenarios # <<>>
    /\ search_blocks_by_id(envs[1].scenarios, search_term) # None

\* block_id_found after the loop over env_scenarios.items()
block_id_found(envs, search_term) ==
    \E k \in 1..Len(envs) :
        /\ envs[k].scenarios # <<>>
        /\ search_blocks_by_id(envs[k].scenarios, search_term) # None

\* a term typed in the search mode
SearchTerm ==
    /\ pc = "search_mode"
    /\ \E search_term \in SearchTerms \ {""} :
          IF block_id_found(env_scenarios, search_term)
          THEN Output("block_id_results", search_term,
                     search_by_block_id_multi_env(env_scenarios, search_term),
                     <<>>, <<>>, <<>>)
          ELSE Output("name_results", search_term,
                     search_blocks_multi_env(env_scenarios, search_term),
                     display_search_results_multi_env(
                         search_blocks_multi_env(env_scenarios, search_term)),
                     <<>>, <<>>)
    /\ Continue(Session, "search_mode")

\* nothing typed
SearchNothing ==
    /\ pc = "search_mode"
    /\ Output("enter_a_term", "", <<>>, <<>>, <<>>, <<>>)
    /\ Continue(Session, "search_mode")

\* "0", "exit", or KeyboardInterrupt in the search mode
SearchExit ==
    /\ pc = "search_mode"
    /\ Output("menu", "", <<>>, <<>>, <<>>, <<>>)
    /\ Continue(Session, "menu")

\* "6": the text is read and parsed
CmdValidate ==
    /\ pc = "menu"
    /\ \E text \in Texts :
          LET refs == parse_block_ids_from_text(text)
          IN  IF text = <<>>
              THEN /\ Output("no_text", "", <<>>, <<>>, <<>>, <<>>)
                   /\ Continue(Session, "menu")
              ELSE IF refs = <<>>
              THEN /\ Output("no_block_ids", "", <<>>, <<>>, <<>>, <<>>)
                   /\ Continue(Session, "menu")
              ELSE /\ Output("choose_env", "", <<>>, <<>>, refs, <<>>)
                   /\ Continue(Session, "choose_env")

\* "1", "2" or "3" at the prompt for the environment to validate against
ChooseEnv(env_name) ==
    /\ pc = "choose_env"
    /\ \E response \in ResponsesFor(Session, env_name) :
          LET st == LoadInto(Session, env_name, response)
          IN  IF st.exit THEN Exit
              ELSE /\ Continue(st, "menu")
                   /\ IF env_name \in EnvNames(st.envs)
                      THEN Output("validation", "", <<>>, <<>>, block_ids,
                                 validate_block_ids(block_ids,
                                     ScenariosOf(st.envs, env_name), env_name))
                      ELSE Output("cannot_load", "", <<>>, <<>>, <<>>, <<>>)

\* KeyboardInterrupt while the text or the environment is asked for
CancelValidate ==
    /\ pc \in {"menu", "choose_env"}
    /\ Output("cancelled", "", <<>>, <<>>, <<>>, <<>>)
    /\ Continue(Session, "menu")

\* anything else at the prompt of the menu
InvalidCommand ==
    /\ pc = "menu"
    /\ Output("invalid_command", "", <<>>, <<>>, <<>>, <<>>)
    /\ Continue(Session, "menu")

Next ==
    \/ InitialLoad
    \/ CmdExit
    \/ CmdShowDev
    \/ \E env_name \in {"prod", "stg"} : CmdShowEnv(env_name)
    \/ CmdCompare
    \/ CmdSearchMode
    \/ SearchTerm
    \/ SearchNothing
    \/ SearchExit
    \/ CmdValidate
    \/ \E env_name \in Envs : ChooseEnv(env_name)
    \/ CancelValidate
    \/ InvalidCommand

Spec == Init /\ [][Next]_vars

\* the term is the identifier of an item of a loaded environment
ResolvesSomewhere ==
    \E k \in 1..Len(env_scenarios) :
        Occurrences(env_scenarios[k].scenarios, search_input) # {}

\* C12: what is shown for a non-empty term is the result of the matcher by
\* identifier exactly when the term is the identifier of an item of some
\* loaded environment, also when the term is part of an item's name, and
\* otherwise the result of the search by name over all loaded
\* environments; never both.
C12_IdentifierModeIffResolves ==
    shown \in {"block_id_results", "name_results"} =>
        /\ search_input # ""
        /\ shown = "block_id_results" <=> ResolvesSomewhere
        /\ shown = "block_id_results" =>
              /\ env_results = search_by_block_id_multi_env(env_scenarios, search_input)
              /\ rows = <<>>
        /\ shown = "name_results" =>
              /\ Len(env_results) = Len(env_scenarios)
              /\ \A k \in 1..Len(env_scenarios) :
                    /\ env_results[k].env_name = env_scenarios[k].env_name
                    /\ env_results[k].results =
                          search_blocks(env_scenarios[k].scenarios, search_input)
              /\ rows = display_search_results_multi_env(env_results)

\* a term that is the identifier of a block of one environment and the
\* name of a block of another
C12_Witness ==
    /\ shown = "block_id_results"
    /\ \E j, k \in 1..Len(env_scenarios) :
          /\ j # k
          /\ Occurrences(env_scenarios[j].scenarios, search_input) # {}
          /\ Occurrences(env_scenarios[k].scenarios, search_input) = {}
          /\ search_blocks(env_scenarios[k].scenarios, search_input) # <<>>

\* C15: an environment that has answered a request with a list of
\* collections, empty or not, is not requested again by any later command,
\* and a stored snapshot is never replaced or removed.
C15_FetchedAtMostOnce ==
    [][\A e \in Envs :
          /\ fetches[e] # "never" => fetches'[e] = fetches[e]
          /\ e \in EnvNames(env_scenarios) =>
                /\ e \in EnvNames(env_scenarios')
                /\ ScenariosOf(env_scenarios', e) = ScenariosOf(env_scenarios, e)]_vars

\* C16: an environment whose request was answered with a list of
\* collections has a snapshot in the session, also when the list is empty,
\* so that it differs from an environment that was never loaded.
C16_EmptySnapshotIsHeld ==
    \A e \in Envs : fetches[e] # "never" => e \in EnvNames(env_scenarios)

\* C17: a retrieval failure never ends the process: the session is at a
\* prompt or was left by the user.
C17_FailureIsNotFatal ==
    pc \in {"start", "menu", "search_mode", "choose_env", "exited"}

\* C18: the entry that carries the source mark is the one of the first
\* environment of env_scenarios in which the identifier resolves, and
\* environments are only appended to env_scenarios, so that two loaded
\* environments keep their order and the same query over the same
\* snapshots has the same source.
C18_SourceIsFirstInInsertionOrder ==
    /\ [](shown = "block_id_results" =>
            /\ SourcePosition # 0
            /\ \A k \in 1..Len(env_scenarios) :
                  LET entry == env_results[env_scenarios[k].env_name]
                  IN  IF k = SourcePosition
                      THEN "env" \in DOMAIN entry /\ entry.env = env_scenarios[k].env_name
                      ELSE "env" \notin DOMAIN entry)
    /\ [][/\ Len(env_scenarios') >= Len(env_scenarios)
          /\ \A k \in 1..Len(env_scenarios) :
                env_scenarios'[k].env_name = env_scenarios[k].env_name]_vars

\* prod was stored before dev, the identifier resolves in both, and prod
\* is the source
C18_Witness ==
    /\ shown = "block_id_results"
    /\ Len(env_scenarios) >= 2
    /\ env_scenarios[1].env_name = "prod"
    /\ env_scenarios[2].env_name = "dev"
    /\ Occurrences(env_scenarios[1].scenarios, search_input) # {}
    /\ Occurrences(env_scenarios[2].scenarios, search_input) # {}
    /\ "env" \in DOMAIN env_results["prod"]

====
